---- MODULE Spec2Model ----
(***************************************************************************)
(* Model of crates/burn-jit/src/fusion/kernel.rs: FusionKernel::create     *)
(* (handle resolution, metadata buffer, output allocation, registration)   *)
(* and the ExecutableKernel / AutotunableKernel life cycle.                *)
(*                                                                         *)
(* A tensor id is a natural number.  A client handle is the index of a     *)
(* buffer in the client's memory.  The context's tensor map and the handle *)
(* registry are functions whose DOMAIN is the set of ids they hold.        *)
(***************************************************************************)
EXTENDS Integers, Sequences, FiniteSets

VARIABLES
    inputs,         \* running_info.inputs: the trace's input descriptions
    outputs,        \* running_info.outputs: the trace's output descriptions
    num_float,      \* running_info.scalars.num_float
    num_int,        \* running_info.scalars.num_int
    tensors,        \* context.tensors: id -> TensorDescription
    registry,       \* context.handles: id -> registered handle
    scalar_floats,  \* context.scalar_floats
    scalar_ints,    \* context.scalar_ints
    memory,         \* the client's buffers, in allocation order
    dispatched,     \* the client's execute calls, in order
    executable,     \* the ExecutableKernel held by the caller (<<>> or <<k>>)
    original,       \* the AutotunableKernel held by the caller (<<>> or <<k>>)
    clones,         \* the boxed clones of the AutotunableKernel not yet executed
    tune,           \* history of the current autotune session
    calls,          \* history: one record per FusionKernel::create call
    panicked        \* TRUE once a create call has panicked

vars == <<inputs, outputs, num_float, num_int, tensors, registry,
          scalar_floats, scalar_ints, memory, dispatched, executable, original,
          clones, tune, calls, panicked>>

trace == <<inputs, outputs, num_float, num_int, tensors,
           scalar_floats, scalar_ints>>

----------------------------------------------------------------------------
(* Bounds of the model *)

MaxInputs == 2

MaxOutputs == 2

MaxBuilds == 2

MaxClones == 2

\* Shapes of the tensors of a trace: rank 1 and rank 2.
Shapes == {<<2>>, <<2, 3>>}

\* Array sizes a factory answers.
Sizes == {4, 8}

Max(a, b) == IF a >= b THEN a ELSE b

Min(a, b) == IF a <= b THEN a ELSE b

\* With(value, Body) is Body(value), with value evaluated once.
With(value, Body(_)) == CHOOSE result \in {Body(v) : v \in {value}} : TRUE

Half == 65536

\* `x as u32`: x modulo 2^32, computed on 16-bit halves.
AsU32(x) == (x % Half) + Half * ((x \div Half) % Half)

----------------------------------------------------------------------------
(* Collaborators of kernel.rs *)

RECURSIVE NumElements(_)
NumElements(shape) ==
    IF shape = <<>> THEN 1 ELSE Head(shape) * NumElements(Tail(shape))

\* crate::fusion::strides_dyn_rank: contiguous strides, one per dimension.
strides_dyn_rank(shape) ==
    [i \in 1..Len(shape) |-> NumElements(SubSeq(shape, i + 1, Len(shape)))]

\* HandleContainer::get_handle: the binding of `id`; a ReadWrite request is
\* recorded on the binding, a ReadOnly request leaves the registry as it is.
get_handle(reg, id, status) ==
    [handle   |-> [handle |-> reg[id].handle, strides |-> reg[id].strides],
     registry |-> IF status = "ReadWrite"
                  THEN [reg EXCEPT ![id].status = "ReadWrite"]
                  ELSE reg]

\* HandleContainer::register_handle: installs or overwrites the binding.
register_handle(reg, id, handle) ==
    [i \in DOMAIN reg \cup {id} |->
        IF i = id
        THEN [handle |-> handle.handle, strides |-> handle.strides,
              status |-> "ReadOnly"]
        ELSE reg[i]]

\* ComputeClient::empty: one new buffer of `size` elements.
client_empty(mem, size) == Append(mem, [size |-> size, data |-> <<>>])

\* ComputeClient::create: one new buffer holding `data`.
client_create(mem, data) == Append(mem, [size |-> Len(data), data |-> data])

----------------------------------------------------------------------------
(* kernel.rs *)

Inplace(i) == [kind |-> "Inplace", input_index |-> i, size |-> 0]

Array(s) == [kind |-> "Array", input_index |-> 0, size |-> s]

\* Variant: the status of the trace's description even when probing.
InputStatus_trace(tensor, stateful) == tensor.status

\* Variant: the status of the context's description of the tensor.
InputStatus_global(tensor, stateful) ==
    IF stateful THEN tensors[tensor.id].status ELSE "ReadOnly"

\* The status create asks the registry with for an input of the trace.
InputStatus(tensor, stateful) ==
    IF stateful THEN tensor.status ELSE "ReadOnly"

\* The loop over the inputs of process_inputs_outputs.  st.ok turns FALSE at
\* the unwrap, or at the get_handle, that panics.
RECURSIVE process_inputs(_, _, _, _)
process_inputs(ins, tens, stateful, st) ==
    IF ins = <<>> \/ ~st.ok THEN st
    ELSE LET tensor == Head(ins)
             status == InputStatus(tensor, stateful)
         IN  IF tensor.id \notin DOMAIN tens
             THEN [st EXCEPT !.ok = FALSE]
             ELSE LET desc == tens[tensor.id]
                      asked == Append(st.log, [op |-> "get_handle", id |-> desc.id,
                                               status |-> status])
                  IN  IF desc.id \notin DOMAIN st.registry
                      THEN [st EXCEPT !.ok = FALSE, !.log = asked]
                      ELSE With(get_handle(st.registry, desc.id, status),
                             LAMBDA got :
                               With([ok |-> TRUE,
                                     registry |-> got.registry,
                                     log |-> asked,
                                     handles_input |-> Append(st.handles_input, got.handle),
                                     inputs_description_updated |->
                                         Append(st.inputs_description_updated, desc)],
                                    LAMBDA next :
                                      process_inputs(Tail(ins), tens, stateful, next)))

\* The loop over the outputs of process_inputs_outputs.
RECURSIVE process_outputs(_, _, _)
process_outputs(outs, tens, st) ==
    IF outs = <<>> \/ ~st.ok THEN st
    ELSE IF Head(outs).id \notin DOMAIN tens
         THEN [st EXCEPT !.ok = FALSE]
         ELSE With([st EXCEPT !.outputs_description_updated =
                                  Append(@, tens[Head(outs).id])],
                   LAMBDA next : process_outputs(Tail(outs), tens, next))

process_inputs_outputs(ins, outs, tens, reg, stateful) ==
    With([ok |-> TRUE, registry |-> reg, log |-> <<>>,
          handles_input |-> <<>>, inputs_description_updated |-> <<>>],
      LAMBDA st0 :
    With(process_inputs(ins, tens, stateful, st0),
      LAMBDA st1 :
    With([ok |-> st1.ok, outputs_description_updated |-> <<>>],
      LAMBDA st :
    With(process_outputs(outs, tens, st),
      LAMBDA st2 :
        [ok |-> st2.ok,
         registry |-> st1.registry,
         log |-> st1.log,
         handles_input |-> st1.handles_input,
         inputs_description_updated |-> st1.inputs_description_updated,
         outputs_description_updated |-> st2.outputs_description_updated]))))

\* Variant: the rank word is pushed in front of every tensor.
register_info_tensor_ranked(info, tensor, handle) ==
    info \o <<AsU32(Len(handle.strides))>>
         \o [i \in 1..Len(handle.strides) |-> AsU32(handle.strides[i])]
         \o [i \in 1..Len(tensor.shape) |-> AsU32(tensor.shape[i])]

register_info_tensor(info, tensor, handle) ==
    LET first == IF info = <<>> THEN <<AsU32(Len(handle.strides))>> ELSE <<>>
    IN  info \o first
             \o [i \in 1..Len(handle.strides) |-> AsU32(handle.strides[i])]
             \o [i \in 1..Len(tensor.shape) |-> AsU32(tensor.shape[i])]

\* rank_input / rank_output: the rank of the first description, 1 if none.
FirstRank(descs) == IF descs = <<>> THEN 1 ELSE Len(Head(descs).shape)

\* rank
FusedRank(ins, outs) == Max(FirstRank(ins), FirstRank(outs))

\* info_size
InfoSize(ins, outs) == ((Len(ins) + Len(outs)) * FusedRank(ins, outs) * 2) + 1

\* num_handles
NumHandles(ins, outs, nf, ni) ==
    Len(ins) + Len(outs) + 1 + (IF nf > 0 THEN 1 ELSE 0) + (IF ni > 0 THEN 1 ELSE 0)

\* "We register the info and handles for the inputs."
RECURSIVE register_inputs(_, _, _)
register_inputs(hs, descs, st) ==
    IF hs = <<>> \/ descs = <<>> THEN st
    ELSE With([info |-> register_info_tensor(st.info, Head(descs), Head(hs)),
               handles |-> Append(st.handles, Head(hs).handle)],
              LAMBDA next : register_inputs(Tail(hs), Tail(descs), next))

\* One output of the zip: Inplace clones the handle at input_index, Array
\* allocates.  st.ok turns FALSE when handles.get(input_index) is None.
output_step(tensor, output_info, st) ==
    IF output_info.kind = "Inplace"
    THEN IF output_info.input_index >= Len(st.handles)
         THEN [st EXCEPT !.ok = FALSE]
         ELSE LET handle_fusion ==
                      [handle  |-> st.handles[output_info.input_index + 1],
                       strides |-> strides_dyn_rank(tensor.shape)]
              IN  [st EXCEPT !.output_register =
                                 Append(@, [id |-> tensor.id, handle |-> handle_fusion])]
    ELSE With(client_empty(st.memory, output_info.size),
           LAMBDA mem :
             LET handle_fusion == [handle  |-> Len(mem),
                                   strides |-> strides_dyn_rank(tensor.shape)]
             IN  [ok |-> TRUE,
                  memory |-> mem,
                  info |-> register_info_tensor(st.info, tensor, handle_fusion),
                  handles |-> Append(st.handles, handle_fusion.handle),
                  output_register |->
                      Append(st.output_register,
                             [id |-> tensor.id, handle |-> handle_fusion])])

\* "We register the info and handles for the outputs."
RECURSIVE register_outputs(_, _, _)
register_outputs(descs, infos, st) ==
    IF descs = <<>> \/ infos = <<>> \/ ~st.ok THEN st
    ELSE With(output_step(Head(descs), Head(infos), st),
              LAMBDA next : register_outputs(Tail(descs), Tail(infos), next))

\* Variant: the scalar block is bound whatever the count.
named_bindings_always(st, scalars, num) ==
    IF num > Len(scalars)
    THEN [st EXCEPT !.ok = FALSE]
    ELSE With(client_create(st.memory, SubSeq(scalars, 1, num)),
           LAMBDA m : [ok |-> TRUE, memory |-> m,
                       handles |-> Append(st.handles, Len(m))])

\* "Finally we finish with the named bindings."  st.ok turns FALSE when the
\* slice scalars[0..num] is out of range: the panic comes before client.create.
named_bindings(st, scalars, num) ==
    IF num > 0
    THEN IF num > Len(scalars)
         THEN [st EXCEPT !.ok = FALSE]
         ELSE With(client_create(st.memory, SubSeq(scalars, 1, num)),
                LAMBDA m : [ok |-> TRUE, memory |-> m,
                            handles |-> Append(st.handles, Len(m))])
    ELSE st

\* "We have to register the output handles to the context."
RECURSIVE register_all(_, _)
register_all(st, output_register) ==
    IF output_register = <<>> THEN st
    ELSE LET id == Head(output_register).id
             handle == Head(output_register).handle
         IN  With([registry |-> register_handle(st.registry, id, handle),
                   log |-> Append(st.log, [op |-> "register_handle", id |-> id,
                                           status |-> "-"])],
                  LAMBDA next : register_all(next, Tail(output_register)))

\* The loop that registers output_register, run on the registry the input
\* resolution left.
register_output_handles(reg, log, output_register) ==
    With([registry |-> reg, log |-> log],
         LAMBDA st : register_all(st, output_register))

\* The record of a create call that panicked: the factory's answer if it was
\* asked, and what the call left behind.
Panicked(stateful, infos, reg, mem, p, memory_after) ==
    [returned |-> FALSE, stateful |-> stateful, runtime_info |-> infos,
     rank |-> 0, info_size |-> 0, num_handles |-> 0,
     info |-> <<>>, handles |-> <<>>, output_register |-> <<>>,
     log |-> p.log,
     registry_before |-> reg, registry |-> p.registry,
     memory_before |-> mem, memory |-> memory_after]

\* FusionKernel::create as a function of the state it reads.
create(ins, outs, nf, ni, infos, tens, reg, floats, ints, mem, stateful) ==
    With(process_inputs_outputs(ins, outs, tens, reg, stateful),
      LAMBDA p :
        IF ~p.ok THEN Panicked(stateful, <<>>, reg, mem, p, mem)
        ELSE
    With(register_inputs(p.handles_input, p.inputs_description_updated,
                         [info |-> <<>>, handles |-> <<>>]),
      LAMBDA i :
    With([ok |-> TRUE, memory |-> mem, info |-> i.info,
          handles |-> i.handles, output_register |-> <<>>],
      LAMBDA o0 :
    With(register_outputs(p.outputs_description_updated, infos, o0),
      LAMBDA o :
        IF ~o.ok THEN Panicked(stateful, infos, reg, mem, p, o.memory)
        ELSE
    With(client_create(o.memory, o.info),
      LAMBDA m :
    With([ok |-> TRUE, memory |-> m, handles |-> Append(o.handles, Len(m))],
      LAMBDA h :
    With(named_bindings(h, floats, nf),
      LAMBDA f :
        IF ~f.ok THEN Panicked(stateful, infos, reg, mem, p, f.memory)
        ELSE
    With(named_bindings(f, ints, ni),
      LAMBDA n :
        IF ~n.ok THEN Panicked(stateful, infos, reg, mem, p, n.memory)
        ELSE
    With(register_output_handles(p.registry, p.log, o.output_register),
      LAMBDA g :
        [returned |-> TRUE, stateful |-> stateful, runtime_info |-> infos,
         rank |-> FusedRank(ins, outs),
         info_size |-> InfoSize(ins, outs),
         num_handles |-> NumHandles(ins, outs, nf, ni),
         info |-> o.info,
         handles |-> n.handles,
         output_register |-> o.output_register,
         log |-> g.log,
         registry_before |-> reg,
         registry |-> g.registry,
         memory_before |-> mem,
         memory |-> n.memory])))))))))

----------------
(* State machine *)

InputId(k) == k

OutputId(k) == MaxInputs + k

Infos(n_in) ==
    {Inplace(i) : i \in 0..(n_in + 1)} \cup {Array(s) : s \in Sizes}

SeqsUpTo(S, n) == UNION {[1..l -> S] : l \in 0..n}

\* What the context may lack: nothing, the description of one tensor of the
\* trace, or the handle of one input.
Defects(n_in, n_out, defects) ==
    {<<"none", 0>>} \cup
    (IF defects
     THEN {<<"tensor", InputId(k)>> : k \in 1..n_in}
          \cup {<<"tensor", OutputId(k)>> : k \in 1..n_out}
          \cup {<<"handle", InputId(k)>> : k \in 1..n_in}
     ELSE {})

\* The answers of a factory: one runtime info per output with an input_index that
\* names an input when well_formed; otherwise any number of infos up to the
\* number of outputs, with an input_index up to one past the inputs and outputs
\* a dispatch list can hold before it.
Answers(n_in, n_out, well_formed) ==
    IF well_formed
    THEN [1..n_out -> {Inplace(i) : i \in 0..(n_in - 1)} \cup {Array(s) : s \in Sizes}]
    ELSE SeqsUpTo(Infos(n_in), n_out)

\* The states a build starts from: a trace of up to MaxInputs inputs and
\* MaxOutputs outputs (at least one tensor), its context, and the client's
\* memory holding one buffer per input.  The context's description of an input
\* carries the status of a later operation (ReadWrite).  The context holds one
\* float and one int scalar; the trace counts `scalars` of each and has
\* `n_outs` outputs.
Setup(statuses, out_shapes, n_outs, scalars, defects) ==
    \E n_in \in 0..MaxInputs, n_out \in n_outs :
    \E ishape \in [1..n_in -> Shapes],
       istatus \in [1..n_in -> statuses],
       oshape \in [1..n_out -> out_shapes] :
    \E defect \in Defects(n_in, n_out, defects) :
        /\ n_in + n_out >= 1
        /\ inputs = [k \in 1..n_in |->
                        [id |-> InputId(k), shape |-> ishape[k], status |-> istatus[k]]]
        /\ outputs = [k \in 1..n_out |->
                        [id |-> OutputId(k), shape |-> oshape[k], status |-> "NotInit"]]
        /\ scalar_floats = <<11>>
        /\ scalar_ints = <<21>>
        /\ num_float \in scalars
        /\ num_int \in scalars
        /\ tensors =
              [id \in ({InputId(k) : k \in 1..n_in} \cup {OutputId(k) : k \in 1..n_out})
                          \ (IF defect[1] = "tensor" THEN {defect[2]} ELSE {}) |->
                  IF id <= MaxInputs
                  THEN [id |-> id, shape |-> ishape[id], status |-> "ReadWrite"]
                  ELSE [id |-> id, shape |-> oshape[id - MaxInputs], status |-> "NotInit"]]
        /\ registry =
              [id \in {InputId(k) : k \in 1..n_in}
                          \ (IF defect[1] = "handle" THEN {defect[2]} ELSE {}) |->
                  [handle |-> id, strides |-> strides_dyn_rank(ishape[id]),
                   status |-> "ReadOnly"]]
        /\ memory = [k \in 1..n_in |-> [size |-> NumElements(ishape[k]), data |-> <<>>]]
        /\ dispatched = <<>>
        /\ executable = <<>>
        /\ original = <<>>
        /\ clones = <<>>
        /\ tune = [kernel |-> 0, handles |-> <<>>, mark |-> 0, cloned |-> 0]
        /\ calls = <<>>
        /\ panicked = FALSE

\* One build of a trace whose factory answers anything.
Init == Setup({"ReadWrite"}, Shapes, 0..MaxOutputs, 0..1, FALSE)

\* FusionKernel::create(factory, running_info, context, device, client, stateful).
\* The factory is asked at every call and answers this call's runtime infos.
Create(stateful, well_formed) ==
    /\ ~panicked
    /\ Len(calls) < MaxBuilds
    /\ \E runtime_info \in Answers(Len(inputs), Len(outputs), well_formed) :
       \E r \in {create(inputs, outputs, num_float, num_int, runtime_info, tensors,
                          registry, scalar_floats, scalar_ints, memory, stateful)} :
           /\ registry' = r.registry
           /\ memory' = r.memory
           /\ calls' = Append(calls, r)
           /\ panicked' = ~r.returned
           /\ executable' = IF r.returned
                            THEN <<[kernel |-> Len(calls) + 1, handles |-> r.handles]>>
                            ELSE executable
    /\ UNCHANGED <<trace, dispatched, original, clones, tune>>

\* ExecutableKernel::execute(self)
Execute ==
    /\ executable # <<>>
    /\ dispatched' = Append(dispatched, executable[1])
    /\ executable' = <<>>
    /\ UNCHANGED <<trace, registry, memory, original, clones, tune, calls, panicked>>

\* AutotunableKernel::from(ExecutableKernel): the kernel moves into an Arc.
from(value) == [kernel |-> value.kernel, handles |-> value.handles]

\* Variant: the clone loses the last handle.
clone_short(self) ==
    [kernel |-> self.kernel,
     handles |-> SubSeq(self.handles, 1, Len(self.handles) - 1)]

\* AutotuneOperation::clone: the same Arc'd kernel, a copy of the handle list.
clone(self) ==
    [kernel |-> self.kernel,
     handles |-> [i \in 1..Len(self.handles) |-> self.handles[i]]]

\* What AutotuneOperation::execute hands to client.execute.
autotune_execute(self) == [kernel |-> self.kernel, handles |-> self.handles]

Remove(seq, i) == SubSeq(seq, 1, i - 1) \o SubSeq(seq, i + 1, Len(seq))

\* The first build of the trace.
Build(stateful, well_formed) ==
    /\ calls = <<>>
    /\ Create(stateful, well_formed)

From ==
    /\ executable # <<>>
    /\ original = <<>>
    /\ clones = <<>>
    /\ original' = <<from(executable[1])>>
    /\ executable' = <<>>
    /\ tune' = [kernel |-> from(executable[1]).kernel,
                handles |-> from(executable[1]).handles,
                mark |-> Len(dispatched), cloned |-> 0]
    /\ UNCHANGED <<trace, registry, memory, dispatched, clones, calls, panicked>>

Clone ==
    /\ original # <<>>
    /\ tune.cloned < MaxClones
    /\ clones' = Append(clones, clone(original[1]))
    /\ tune' = [tune EXCEPT !.cloned = @ + 1]
    /\ UNCHANGED <<trace, registry, memory, dispatched, executable, original,
                   calls, panicked>>

\* AutotuneOperation::execute(self: Box<Self>) of a clone
ExecuteClone ==
    \E i \in 1..Len(clones) :
        /\ dispatched' = Append(dispatched, autotune_execute(clones[i]))
        /\ clones' = Remove(clones, i)
        /\ UNCHANGED <<trace, registry, memory, executable, original, tune,
                       calls, panicked>>

\* AutotuneOperation::execute(self: Box<Self>) of the converted kernel
ExecuteOriginal ==
    /\ original # <<>>
    /\ dispatched' = Append(dispatched, autotune_execute(original[1]))
    /\ original' = <<>>
    /\ UNCHANGED <<trace, registry, memory, executable, clones, tune, calls, panicked>>

Next ==
    \/ Build(TRUE, FALSE)
    \/ Build(FALSE, FALSE)
    \/ Execute

Spec == Init /\ [][Next]_vars

\* Repeated builds of a trace of at most one output whose factory answers
\* every call one valid runtime info per output, on a context that may lack
\* one id, or hold one scalar fewer than the trace counts.
InitRepeat == Setup({"ReadOnly", "ReadWrite"}, {<<2, 3>>}, 0..1, {0, 2}, TRUE)

NextRepeat ==
    \/ Create(TRUE, TRUE)
    \/ Create(FALSE, TRUE)

SpecRepeat == InitRepeat /\ [][NextRepeat]_vars

\* An autotune session on a trace the harness probes.
InitAutotune == Setup({"ReadOnly"}, Shapes, 0..MaxOutputs, {0}, FALSE)

NextAutotune ==
    \/ Build(FALSE, TRUE)
    \/ From
    \/ Clone
    \/ ExecuteClone
    \/ ExecuteOriginal

SpecAutotune == InitAutotune /\ [][NextAutotune]_vars

----------------------------------------------------------------------------
(* Vocabulary of the properties *)

Returned == {n \in 1..Len(calls) : calls[n].returned}

\* The outputs the zip of call c pairs with a runtime info.
Zipped(c) == 1..Min(Len(outputs), Len(c.runtime_info))

ArrayOutputs(c) == {k \in Zipped(c) : c.runtime_info[k].kind = "Array"}

InplaceOutputs(c) == {k \in Zipped(c) : c.runtime_info[k].kind = "Inplace"}

\* The Array outputs of call c in trace output order.
ArraySeq(c) == SelectSeq([k \in 1..Min(Len(outputs), Len(c.runtime_info)) |-> k],
                         LAMBDA k : c.runtime_info[k].kind = "Array")

RECURSIVE SumSeq(_)
SumSeq(seq) == IF seq = <<>> THEN 0 ELSE Head(seq) + SumSeq(Tail(seq))

Rank(id) == Len(tensors[id].shape)

RECURSIVE MaxRankOf(_)
MaxRankOf(descs) ==
    IF descs = <<>> THEN 1
    ELSE IF Tail(descs) = <<>> THEN Len(Head(descs).shape)
    ELSE Max(Len(Head(descs).shape), MaxRankOf(Tail(descs)))

MaxRank == Max(MaxRankOf(inputs), MaxRankOf(outputs))

\* The handle the registry held for the k-th input when call c started.
InputHandle(c, k) == c.registry_before[inputs[k].id].handle

\* The buffers call c allocated, as handles.
NewHandles(c) == (Len(c.memory_before) + 1)..Len(c.memory)

Flag(num) == IF num > 0 THEN 1 ELSE 0

----------------------------------------------------------------------------
(* C1 *)

\* Every tensor of the trace has the same rank, and the factory answered call
\* c one runtime info per output: the calls on which the rank create computes
\* is the maximum rank.
Uniform(c) ==
    /\ Len(c.runtime_info) = Len(outputs)
    /\ \A k \in 1..Len(inputs) : Len(inputs[k].shape) = MaxRank
    /\ \A k \in 1..Len(outputs) : Len(outputs[k].shape) = MaxRank

\* C1 as claimed, on the uniform calls: the metadata buffer of a create call
\* has 2*rank*(num_inputs+num_outputs)+1 words, counting every output.
C1_Original ==
    \A n \in Returned :
        Uniform(calls[n]) =>
            Len(calls[n].info) = 2 * calls[n].rank * (Len(inputs) + Len(outputs)) + 1

\* The words create packs: strides and shape of each input and of each Array
\* output, nothing for an Inplace output.
PackedWords(c) ==
    SumSeq([k \in 1..Len(inputs) |->
               Len(c.registry_before[inputs[k].id].strides) + Rank(inputs[k].id)])
    + SumSeq([j \in 1..Len(ArraySeq(c)) |-> 2 * Rank(outputs[ArraySeq(c)[j]].id)])

\* C1 amended: the metadata buffer has one leading word followed by the
\* strides and the shape of every input and of every Array output (an Inplace
\* output adds no word), and it is empty when the build has no input and no
\* Array output; this never exceeds 2*R*(num_inputs+num_outputs)+1 for the
\* maximum rank R of the trace.
C1_MetadataLength ==
    \A n \in Returned :
        /\ Len(calls[n].info) =
              IF Len(inputs) + Len(ArraySeq(calls[n])) = 0 THEN 0
              ELSE 1 + PackedWords(calls[n])
        /\ Len(calls[n].info) <= 2 * MaxRank * (Len(inputs) + Len(outputs)) + 1

C1_Witness ==
    \E n \in Returned :
        /\ Len(inputs) = 2
        /\ InplaceOutputs(calls[n]) # {}
        /\ ArrayOutputs(calls[n]) # {}
        /\ Len(calls[n].info) = 1 + PackedWords(calls[n])
        /\ Len(calls[n].info) < calls[n].info_size

----------------------------------------------------------------------------
(* C2 *)

\* C2: the dispatch handle list is the input handles in input order, the new
\* buffer of each Array output in output order, the metadata buffer, the float
\* scalars if num_float > 0, the int scalars if num_int > 0, and nothing else.
C2_HandleOrder ==
    \A n \in Returned :
        LET c == calls[n]
            n_in == Len(inputs)
            arrays == ArraySeq(c)
            n_arr == Len(arrays)
            base == Len(c.memory_before)
        IN  /\ Len(c.handles) = n_in + n_arr + 1 + Flag(num_float) + Flag(num_int)
            /\ \A k \in 1..n_in : c.handles[k] = InputHandle(c, k)
            /\ \A j \in 1..n_arr :
                  /\ c.handles[n_in + j] = base + j
                  /\ c.handles[n_in + j] = c.registry[outputs[arrays[j]].id].handle
                  /\ c.memory[c.handles[n_in + j]] =
                        [size |-> c.runtime_info[arrays[j]].size, data |-> <<>>]
            /\ c.handles[n_in + n_arr + 1] = base + n_arr + 1
            /\ c.memory[c.handles[n_in + n_arr + 1]].data = c.info
            /\ num_float > 0 =>
                  c.memory[c.handles[n_in + n_arr + 2]].data =
                      SubSeq(scalar_floats, 1, num_float)
            /\ num_int > 0 =>
                  c.memory[c.handles[n_in + n_arr + 2 + Flag(num_float)]].data =
                      SubSeq(scalar_ints, 1, num_int)

C2_Witness ==
    \E n \in Returned :
        /\ Len(inputs) = 2
        /\ calls[n].runtime_info = <<Inplace(1), Array(8)>>
        /\ Len(outputs) = 2
        /\ num_float = 0
        /\ num_int > 0
        /\ Len(calls[n].handles) = 5

----------------------------------------------------------------------------
(* C3 *)

\* C3 as claimed: the handle registered under the id of an Inplace{i} output
\* is the buffer of the i-th input, which is the entry at position i of the
\* dispatch list, and its strides are those of the output's own shape.
C3_Claim ==
    \A n \in Returned : \A k \in InplaceOutputs(calls[n]) :
        LET c == calls[n]
            i == c.runtime_info[k].input_index
            h == c.registry[outputs[k].id]
        IN  /\ i < Len(inputs)
            /\ h.handle = InputHandle(c, i + 1)
            /\ h.handle = c.handles[i + 1]
            /\ h.strides = strides_dyn_rank(tensors[outputs[k].id].shape)

----------------------------------------------------------------------------
(* C4 *)

\* What C4 says of the k-th output, an Array, against the outputs in others.
ArrayIsFresh(c, k, others) ==
    LET h == c.registry[outputs[k].id].handle
    IN  /\ h \in NewHandles(c)
        /\ c.memory[h] = [size |-> c.runtime_info[k].size, data |-> <<>>]
        /\ \A j \in 1..Len(inputs) : InputHandle(c, j) # h
        /\ \A m \in others \ {k} : c.registry[outputs[m].id].handle # h

\* Each Array output has a buffer of its own among the buffers of the build.
OneBufferEach(c) ==
    Cardinality(NewHandles(c)) =
        Cardinality(ArrayOutputs(c)) + 1 + Flag(num_float) + Flag(num_int)

\* C4 as claimed: the buffer registered for an Array output is new, has the
\* size asked, and differs from every input handle and from the buffer of
\* every other output of the build.
C4_Claim ==
    \A n \in Returned : \A k \in ArrayOutputs(calls[n]) :
        OneBufferEach(calls[n]) /\ ArrayIsFresh(calls[n], k, Zipped(calls[n]))

----------------------------------------------------------------------------
(* C5 *)

\* The registry holds for every input what it held when call c started.
InputsUntouched(c) ==
    \A k \in 1..Len(inputs) :
        /\ inputs[k].id \in DOMAIN c.registry
        /\ c.registry[inputs[k].id] = c.registry_before[inputs[k].id]

\* Two create calls in a row, both with stateful = false.
Probes(n, m) == m = n + 1 /\ ~calls[n].stateful /\ ~calls[m].stateful

\* The factory answered calls c and d as many runtime infos, of the same
\* kinds at the same positions.
SameKinds(c, d) ==
    /\ Len(c.runtime_info) = Len(d.runtime_info)
    /\ \A k \in 1..Len(c.runtime_info) :
          c.runtime_info[k].kind = d.runtime_info[k].kind

\* C5 as claimed: two create calls in a row with stateful = false leave the
\* binding and the status of every input as they were, and pack the same
\* metadata words.
C5_Original ==
    \A n \in Returned : \A m \in Returned :
        Probes(n, m) =>
            /\ InputsUntouched(calls[n])
            /\ InputsUntouched(calls[m])
            /\ calls[m].registry_before = calls[n].registry
            /\ calls[n].info = calls[m].info

\* C5 amended: two create calls in a row with stateful = false leave the
\* binding and the status of every input as they were; they pack the same
\* metadata words when the factory answers both calls with runtime infos of
\* the same kinds.
C5_ProbeTwice ==
    \A n \in Returned : \A m \in Returned :
        Probes(n, m) =>
            /\ InputsUntouched(calls[n])
            /\ InputsUntouched(calls[m])
            /\ calls[m].registry_before = calls[n].registry
            /\ SameKinds(calls[n], calls[m]) => calls[n].info = calls[m].info

C5_Witness ==
    /\ Len(calls) = 2
    /\ \A n \in 1..2 : calls[n].returned /\ ~calls[n].stateful
    /\ Len(inputs) = 2
    /\ inputs[1].status = "ReadWrite"
    /\ calls[1].runtime_info = <<Array(4)>>
    /\ calls[2].runtime_info = <<Array(8)>>
    /\ calls[1].info = calls[2].info
    /\ calls[1].handles # calls[2].handles

----------------------------------------------------------------------------
(* C6 *)

\* What every execution unit of the autotune session is.
Unit == [kernel |-> tune.kernel, handles |-> tune.handles]

\* C6: the clones of an AutotunableKernel, and the dispatches of the session,
\* all carry the handle list and the kernel of the converted kernel; the
\* clones executed so far made one dispatch each; the converted kernel keeps
\* its handle list.
C6_Clones ==
    tune.kernel # 0 =>
        /\ \A i \in 1..Len(clones) : clones[i] = Unit
        /\ original # <<>> => original[1] = Unit
        /\ \A i \in (tune.mark + 1)..Len(dispatched) : dispatched[i] = Unit
        /\ Len(dispatched) - tune.mark =
              (tune.cloned - Len(clones)) + (IF original = <<>> THEN 1 ELSE 0)

C6_Witness ==
    /\ tune.cloned = 2
    /\ clones = <<>>
    /\ original # <<>>
    /\ Len(dispatched) = 2
    /\ Len(dispatched[1].handles) >= 3
    /\ dispatched[1] = dispatched[2]

----------------------------------------------------------------------------
(* C7 *)

\* C7 as claimed: the rank create computes is the maximum rank over all the
\* inputs and outputs of the trace, and the first word of the metadata buffer
\* is that rank.
C7_Claim ==
    \A n \in Returned :
        /\ calls[n].rank = MaxRank
        /\ calls[n].info # <<>> => calls[n].info[1] = MaxRank

----------------------------------------------------------------------------
(* C8 *)

\* C8 as claimed, of the client: a create call that panics has made no
\* client call (empty or create) before it panicked.
C8_Claim ==
    \A n \in 1..Len(calls) :
        ~calls[n].returned => calls[n].memory = calls[n].memory_before

----------------------------------------------------------------------------
(* C9 *)

\* The registry calls of call c are the resolution of every input, then the
\* registration of the first `count` outputs in trace output order, and the
\* registry gained or rebound no other id.
RegistersOutputs(c, count) ==
    /\ Len(c.log) = Len(inputs) + count
    /\ \A j \in 1..Len(inputs) : c.log[j].op = "get_handle"
    /\ \A k \in 1..count :
          /\ c.log[Len(inputs) + k] =
                [op |-> "register_handle", id |-> outputs[k].id, status |-> "-"]
          /\ outputs[k].id \in DOMAIN c.registry
          /\ c.registry[outputs[k].id].handle = c.output_register[k].handle.handle
    /\ \A id \in DOMAIN c.registry :
          (\A k \in 1..count : outputs[k].id # id) =>
              /\ id \in DOMAIN c.registry_before
              /\ c.registry[id].handle = c.registry_before[id].handle
              /\ c.registry[id].strides = c.registry_before[id].strides

\* C9 as claimed: every output of the trace is registered, whatever the
\* number of runtime infos.
C9_Claim ==
    \A n \in Returned : RegistersOutputs(calls[n], Len(outputs))

----------------------------------------------------------------------------
(* C10 *)

\* C10: create asks the registry once per input, in trace input order, with
\* the status of the trace's description when stateful and with ReadOnly
\* otherwise.
C10_Resolution ==
    \A n \in Returned :
        LET c == calls[n]
        IN  /\ Len(c.log) >= Len(inputs)
            /\ \A k \in 1..Len(inputs) :
                  c.log[k] = [op |-> "get_handle", id |-> inputs[k].id,
                              status |-> IF c.stateful THEN inputs[k].status
                                         ELSE "ReadOnly"]
            /\ \A j \in (Len(inputs) + 1)..Len(c.log) : c.log[j].op # "get_handle"

C10_Witness ==
    \E n \in Returned :
        /\ calls[n].stateful
        /\ Len(inputs) = 2
        /\ inputs[1].status = "ReadOnly"
        /\ inputs[2].status = "ReadWrite"
        /\ tensors[inputs[1].id].status = "ReadWrite"
        /\ calls[n].log[1].status = "ReadOnly"
        /\ calls[n].log[2].status = "ReadWrite"

====
